---- MODULE Spec2Model ----
(***************************************************************************)
(* State-machine model of the ordered dispatch pipeline and of the voice   *)
(* activity segmentation of src/transcribe_service.py.                     *)
(*                                                                         *)
(* Threads of the program that appear here:                                *)
(*   main      handle_message: start_recording / stop_recording            *)
(*   segment i process_segment_chunks -> process_combined_audio ->         *)
(*             queue_translation, one daemon thread per finalized segment  *)
(*   worker    translation_worker                                          *)
(*   capture   audio_callback, and the record_audio polling loop           *)
(*                                                                         *)
(* `x += 1; y = x` on a module global is not atomic in Python: it is       *)
(* modelled as load, store, read-back, three separate steps.               *)
(***************************************************************************)
EXTENDS Integers, Sequences, FiniteSets, TLC

\* ---------------------------------------------------------------- bounds
\* Spec: segments per run and start_recording commands per run.
MaxSegments == 2
MaxSessions == 2
\* SpecSession: segments of the one session.
MaxSessionSegments == 3
\* SpecCommands: translate_single requests and failed device checks per run.
MaxManual == 2
MaxDeviceFailures == 2
MaxConfigs == 2
\* SpecControl: start_recording and stop_recording calls that return at once,
\* and sessions started after the first.
MaxRedundant == 1
MaxStreamRestarts == 1

\* A key that a configuration does not carry.
Absent == 0
\* The detection thresholds as the module defines them, and the values an
\* update_config message may carry: the rms threshold in thousandths, the
\* minimum silence in seconds.
DefaultThresholds == [silence_rms |-> 10, min_silence |-> 1]
SentThresholds == [silence_rms |-> 20, min_silence |-> 2]

\* Spec: streaming updates sent per entry.
MaxDeltas == 1

\* A segment's result id is its index, in the order the segments were cut.
Segments == 1..(IF MaxSessionSegments > MaxSegments
                THEN MaxSessionSegments ELSE MaxSegments)

VARIABLES
  is_recording,               \* global is_recording
  config,                     \* global config (the keys the pipeline reads)
  credentials_ok,             \* _translation_credentials_available(engine)
  transcription_counter,      \* global transcription_counter
  translation_counter,        \* global translation_counter
  translation_next_expected,  \* global translation_next_expected
  translation_queue,          \* queue.PriorityQueue, as a sequence sorted by priority
  translation_worker_running, \* global translation_worker_running
  worker,                     \* the translation_worker thread and its locals
  seg,                        \* the segment threads and their locals
  main,                       \* the thread that runs handle_message
  sessions,                   \* start_recording commands carried out so far
  nseg,                       \* segments handed to process_segment_chunks so far
  tl_issued,                  \* result id -> the translation order queue_translation gave it
  tr_events,                  \* terminal transcription events seen by the consumer
  tl_events,                  \* terminal translation_update events seen by the consumer
  worker_threads,             \* translation_worker threads that are alive
  manual,                     \* translate_single requests queued so far
  configs,                    \* update_config messages handled so far
  initial_config_applied,     \* global initial_config_applied
  thresholds,                 \* globals SILENCE_RMS_THRESHOLD, MIN_SILENCE_SEC_FOR_SPLIT
  recording_errors,           \* recording_error events sent by start_recording
  lock_free_writes,           \* segmentation globals written without audio_lock held
  audio_data,                 \* global audio_data: chunks, each the number of its block
  segment_frames,             \* global segment_frames
  silence_frames_contig,      \* global silence_frames_contig
  split_requested,            \* global split_requested
  segment_active,             \* global segment_active
  new_segment_requested,      \* global new_segment_requested
  pre_roll_chunks,            \* global pre_roll_chunks
  pre_roll_frames,            \* global pre_roll_frames
  segment_index,              \* global segment_index
  recorder,                   \* position of the record_audio thread
  stopper,                    \* position of stop_recording
  fed,                        \* blocks the input stream has delivered
  loud_blocks,                \* blocks whose rms was at or above the threshold
  finalized,                  \* chunk lists handed to process_segment_chunks
  appended,                   \* history: every chunk put into audio_data
  resumes,                    \* input: whether and when speech resumes
  simple_recording_mode,      \* global simple_recording_mode
  handled,                    \* start, stop and update_config calls that returned at once
  voice_events,               \* the `active` of the voice_activity events sent
  last_volume_emit,           \* global last_volume_emit, in milliseconds
  volume_events,              \* volume_level events sent: time and block
  call,                       \* an adapter call: what it streams and what it returns
  entry,                      \* the entry of that call: fragments kept, events sent
  audio_lock                  \* holder of audio_lock, "free" when released

command_vars == <<manual, configs, recording_errors, initial_config_applied,
                  thresholds>>

pipe_vars == <<config, credentials_ok, transcription_counter, translation_counter,
               translation_next_expected, translation_queue,
               translation_worker_running, worker, seg, main, sessions, nseg,
               tl_issued, tr_events, tl_events, worker_threads,
               command_vars, lock_free_writes>>

volume_vars == <<last_volume_emit, volume_events>>

control_vars == <<simple_recording_mode, handled>>

stream_vars == <<audio_data, segment_frames, silence_frames_contig,
                 split_requested, segment_active, new_segment_requested,
                 pre_roll_chunks, pre_roll_frames, segment_index, recorder,
                 stopper, fed, loud_blocks, finalized, appended, resumes,
                 volume_vars, voice_events>>

seg_vars == <<stream_vars, control_vars>>

text_vars == <<call, entry>>

vars == <<is_recording, pipe_vars, seg_vars, text_vars, audio_lock>>

\* ------------------------------------------------------- priority queue
\* An item is <<priority, result_id>>; the stop signal (0, None) is <<0, 0>>.
StopSignal == <<0, 0>>

\* PriorityQueue.put: the queue stays sorted by priority.
QueuePut(q, item) ==
  LET k == Cardinality({j \in 1..Len(q) : q[j][1] <= item[1]})
  IN  SubSeq(q, 1, k) \o <<item>> \o SubSeq(q, k + 1, Len(q))

QueueRemove(q, j) == SubSeq(q, 1, j - 1) \o SubSeq(q, j + 1, Len(q))

\* PriorityQueue.get returns a smallest item; equal priorities are ordered by
\* the tasks' uuid4 result ids, that is, arbitrarily.
QueueMinIndices(q) == {j \in 1..Len(q) : q[j][1] = q[1][1]}

\* A drain pass that forgets the items it took.
QueuePutNone(q, items) == q

\* `for item in temp_queue: translation_queue.put(item)`
RECURSIVE QueuePutAll(_, _)
QueuePutAll(q, items) ==
  IF items = <<>> THEN q ELSE QueuePutAll(QueuePut(q, Head(items)), Tail(items))

\* ------------------------------------------------------------------ Init
IdleSeg == [pc |-> "unborn", tmp |-> 0, trans_order |-> 0, epoch |-> 0,
            events |-> <<>>]

NoWorker == [alive |-> FALSE, pc |-> "none", next_expected_order |-> 0,
             task |-> StopSignal, temp_queue |-> <<>>, epoch |-> 0]

InitPipe ==
  /\ config = [enable_translation |-> TRUE, silence_rms_threshold |-> Absent,
               min_silence_seconds |-> Absent]
  /\ credentials_ok \in BOOLEAN
  /\ transcription_counter = 0
  /\ translation_counter = 0
  /\ translation_next_expected = 1
  /\ translation_queue = <<>>
  /\ translation_worker_running = FALSE
  /\ worker = NoWorker
  /\ seg = [i \in Segments |-> IdleSeg]
  /\ main = [pc |-> "idle", should_translate |-> FALSE, seg |-> 0]
  /\ sessions = 0
  /\ nseg = 0
  /\ tl_issued = [r \in Segments |-> [order |-> 0, epoch |-> 0]]
  /\ tr_events = <<>>
  /\ tl_events = <<>>
  /\ worker_threads = 0
  /\ manual = 0
  /\ configs = 0
  /\ recording_errors = 0
  /\ initial_config_applied = FALSE
  /\ thresholds = DefaultThresholds
  /\ lock_free_writes = {}

\* Segmentation state as start_recording leaves it.
InitSeg ==
  /\ audio_data = <<>>
  /\ segment_frames = 0
  /\ silence_frames_contig = 0
  /\ split_requested = FALSE
  /\ segment_index = 1
  /\ segment_active = FALSE
  /\ new_segment_requested = FALSE
  /\ pre_roll_chunks = <<>>
  /\ pre_roll_frames = 0
  /\ recorder = "loop"
  /\ stopper = "idle"
  /\ fed = 0
  /\ loud_blocks = {}
  /\ finalized = <<>>
  /\ appended = <<>>
  /\ last_volume_emit = 0
  /\ volume_events = <<>>
  /\ handled = [start |-> 0, stop |-> 0, config |-> 0]
  /\ voice_events = <<>>

\* ------------------------------------------------------------------ texts
\* A text is a sequence of characters: a letter, white space, and a lone
\* surrogate, which UTF-8 cannot encode. NotText stands for a value that is
\* no str (None, bytes, a number).
MaxTextLen == 2
MaxFragments == 2
Alphabet == {"a", " ", "?"}
NotText == <<"#">>
Texts == UNION {[1..n -> Alphabet] : n \in 0..MaxTextLen}
Values == Texts \cup {NotText}
FragmentLists == UNION {[1..n -> Values] : n \in 0..MaxFragments}

IsText(v) == v # NotText

\* _sanitize_utf8_text: '' for a value that is no str, else the text without
\* what encode('utf-8', 'ignore') leaves out.
SanitizeUtf8Text(v) ==
  IF IsText(v) THEN SelectSeq(v, LAMBDA ch : ch # "?") ELSE <<>>

\* str.strip()
Strip(t) ==
  LET kept == {j \in DOMAIN t : t[j] # " "}
      first == CHOOSE j \in kept : \A k \in kept : j <= k
      last == CHOOSE j \in kept : \A k \in kept : k <= j
  IN  IF kept = {} THEN <<>> ELSE SubSeq(t, first, last)

\* ''.join(parts)
RECURSIVE Join(_)
Join(parts) == IF parts = <<>> THEN <<>> ELSE Head(parts) \o Join(Tail(parts))

\* A callback that lets every fragment through.
IsDroppedNever(safe_delta) == FALSE

\* `if not safe_delta: return` in emit_transcription_delta and in on_delta.
IsDropped(safe_delta) == safe_delta = <<>>

\* `_sanitize_utf8_text(''.join(collected)) if collected else ''`
Aggregated(collected) ==
  IF collected # <<>> THEN SanitizeUtf8Text(Join(collected)) ELSE <<>>

\* The aggregate chosen whenever there is one.
FinalTranscriptionAggregateFirst(transcription, aggregated) ==
  IF aggregated # <<>> THEN aggregated
  ELSE IF IsText(transcription) THEN SanitizeUtf8Text(Strip(transcription))
  ELSE <<>>

\* final_transcription in process_combined_audio; <<>> when it is None.
FinalTranscription(transcription, aggregated) ==
  IF IsText(transcription) /\ Strip(transcription) # <<>>
  THEN SanitizeUtf8Text(Strip(transcription))
  ELSE IF aggregated # <<>> THEN aggregated
  ELSE <<>>

NoCall == [stream |-> "none", fragments |-> <<>>, returned |-> NotText,
           next |-> 1, done |-> TRUE]
NoEntry == [collected |-> <<>>, updates |-> <<>>, terminal |-> <<>>]

\* No adapter call is followed fragment by fragment.
InitText ==
  /\ call = NoCall
  /\ entry = NoEntry

Init ==
  /\ is_recording = FALSE
  /\ InitPipe
  /\ InitSeg
  /\ InitText
  /\ resumes = "never"
  /\ simple_recording_mode = FALSE
  /\ audio_lock = "free"

\* A `with audio_lock:` block that also covers what follows it.
AfterWithHeld(holder) == holder

\* The holder of audio_lock once the `with audio_lock:` block entered by
\* `holder` has been left.
AfterWith(holder) == "free"

\* ------------------------------------------------------ translation worker
\* A start that never finds the old thread alive.
ThreadIsAliveNever(w) == FALSE

\* `translation_worker_thread and translation_worker_thread.is_alive()`
ThreadIsAlive(w) == w.alive

\* start_translation_worker: returns at once while the old thread is alive;
\* a new thread reads translation_next_expected when it starts.
StartedWorker(w, tne) ==
  IF ThreadIsAlive(w) THEN w
  ELSE [alive |-> TRUE, pc |-> "head",
        next_expected_order |-> IF tne > 0 THEN tne ELSE 1,
        task |-> StopSignal, temp_queue |-> <<>>, epoch |-> 0]

RunningAfterStart(w, running) == IF ThreadIsAlive(w) THEN running ELSE TRUE

\* The live worker threads after start_translation_worker.
ThreadsAfterStart(w, threads) == IF ThreadIsAlive(w) THEN threads ELSE threads + 1

\* A worker that releases whatever it takes from the queue.
IsExpectedAnyOrder(order, next_expected_order) == TRUE

\* `if order == next_expected_order:` in the worker loop and in its drain loop.
IsExpected(order, next_expected_order) == order = next_expected_order

\* A loop that only the stop signal ends.
LoopConditionAlways(running) == TRUE

\* `while translation_worker_running:` the loop condition.
LoopCondition(running) == running

\* The head of the worker loop: the flag is read, and the thread ends when
\* it is down.
WorkerHead ==
  /\ worker.alive /\ worker.pc = "head"
  /\ worker' = IF LoopCondition(translation_worker_running)
                THEN [worker EXCEPT !.pc = "get"]
                ELSE NoWorker
  /\ worker_threads' = IF LoopCondition(translation_worker_running)
                        THEN worker_threads ELSE worker_threads - 1
  /\ UNCHANGED <<audio_lock, seg_vars, text_vars, command_vars, lock_free_writes,
                 is_recording, config, credentials_ok, transcription_counter,
                 translation_counter, translation_next_expected,
                 translation_queue, translation_worker_running, seg, main,
                 sessions, nseg, tr_events, tl_events, tl_issued>>

\* translation_queue.get(timeout=2) and the dispatch on what it returned:
\* queue.Empty -> continue; the stop signal -> break; the expected order ->
\* perform_translation_task; any other order -> put back and sleep.
WorkerGet ==
  /\ worker.alive /\ worker.pc = "get"
  /\ IF translation_queue = <<>>
     THEN /\ worker' = [worker EXCEPT !.pc = "head"]
          /\ UNCHANGED <<translation_queue, worker_threads>>
     ELSE \E j \in QueueMinIndices(translation_queue) :
            LET item == translation_queue[j] IN
            IF item = StopSignal
            THEN /\ worker' = NoWorker
                 /\ worker_threads' = worker_threads - 1
                 /\ translation_queue' = QueueRemove(translation_queue, j)
            ELSE IF IsExpected(item[1], worker.next_expected_order)
            THEN /\ worker' = [worker EXCEPT !.pc = "call", !.task = item,
                                              !.epoch = sessions]
                 /\ translation_queue' = QueueRemove(translation_queue, j)
                 /\ UNCHANGED worker_threads
            ELSE /\ worker' = [worker EXCEPT !.pc = "head"]
                 /\ UNCHANGED <<translation_queue, worker_threads>>
  /\ UNCHANGED <<audio_lock, seg_vars, text_vars, command_vars, lock_free_writes,
                 is_recording, config, credentials_ok, transcription_counter,
                 translation_counter, translation_next_expected,
                 translation_worker_running, seg, main, sessions, nseg,
                 tr_events, tl_events, tl_issued>>

\* The consumer's view of a terminal translation_update.
TranslationEvent(task, ok) == [rid |-> task[2], order |-> task[1], ok |-> ok]

\* perform_translation_task returns: the terminal event is sent (final when
\* the adapter returned text, translation_failed otherwise), the expected
\* order advances either way, and the held-back items go back on the queue.
WorkerReturn(ok) ==
  /\ worker.alive /\ worker.pc = "call"
  /\ tl_events' = Append(tl_events, TranslationEvent(worker.task, ok))
  /\ translation_next_expected' = worker.next_expected_order + 1
  /\ translation_queue' = QueuePutAll(translation_queue, worker.temp_queue)
  /\ worker' = [worker EXCEPT !.pc = "drain",
                              !.next_expected_order = worker.next_expected_order + 1,
                              !.task = StopSignal, !.temp_queue = <<>>]
  /\ UNCHANGED <<audio_lock, seg_vars, text_vars, command_vars, lock_free_writes,
                 worker_threads, is_recording, config, credentials_ok, transcription_counter,
                 translation_counter, translation_worker_running, seg,
                 main, sessions, nseg, tr_events, tl_issued>>

\* One pass of the `while True:` drain loop: items are taken with
\* get_nowait in priority order; the stop signal is put back and ends the
\* pass; the first item with the expected order is processed, the items
\* taken before it are kept in temp_queue until that call has returned.
WorkerDrain ==
  /\ worker.alive /\ worker.pc = "drain"
  /\ LET q == translation_queue
         next == worker.next_expected_order
         matches == {j \in 1..Len(q) : IsExpected(q[j][1], next)}
     IN  IF q = <<>> \/ q[1] = StopSignal \/ matches = {}
         THEN /\ worker' = [worker EXCEPT !.pc = "head"]
              /\ UNCHANGED translation_queue
         ELSE \E j \in matches :
                /\ worker' = [worker EXCEPT
                       !.pc = "call", !.task = q[j], !.epoch = sessions,
                       !.temp_queue = SelectSeq(q, LAMBDA it : it[1] < next)]
                /\ translation_queue' =
                       SelectSeq(QueueRemove(q, j), LAMBDA it : it[1] >= next)
  /\ UNCHANGED <<audio_lock, seg_vars, text_vars, command_vars, lock_free_writes,
                 worker_threads, is_recording, config, credentials_ok, transcription_counter,
                 translation_counter, translation_next_expected,
                 translation_worker_running, seg, main, sessions, nseg,
                 tr_events, tl_events, tl_issued>>

\* ---------------------------------------------------------- segment threads
\* record_audio hands a non-empty segment to a new daemon thread running
\* process_segment_chunks.
Split(max) ==
  /\ is_recording
  /\ nseg < max
  /\ audio_lock = "free"
  /\ audio_lock' = AfterWith("record_audio")
  /\ nseg' = nseg + 1
  /\ seg' = [seg EXCEPT ![nseg + 1].pc = "c_load"]
  /\ UNCHANGED <<seg_vars, text_vars, command_vars, lock_free_writes,
                 worker_threads, is_recording, config, credentials_ok, transcription_counter,
                 translation_counter, translation_next_expected,
                 translation_queue, translation_worker_running, worker,
                 main, sessions, tr_events, tl_events, tl_issued>>

\* `transcription_counter += 1`, the load.
SegLoad(i) ==
  /\ seg[i].pc = "c_load"
  /\ seg' = [seg EXCEPT ![i].pc = "c_store", ![i].tmp = transcription_counter]
  /\ UNCHANGED <<audio_lock, seg_vars, text_vars, command_vars, lock_free_writes,
                 worker_threads, is_recording, config, credentials_ok, transcription_counter,
                 translation_counter, translation_next_expected,
                 translation_queue, translation_worker_running, worker,
                 main, sessions, nseg, tr_events, tl_events, tl_issued>>

\* `transcription_counter += 1`, the store.
SegStore(i) ==
  /\ seg[i].pc = "c_store"
  /\ transcription_counter' = seg[i].tmp + 1
  /\ seg' = [seg EXCEPT ![i].pc = "c_read", ![i].tmp = 0]
  /\ UNCHANGED <<audio_lock, seg_vars, text_vars, command_vars, lock_free_writes,
                 worker_threads, is_recording, config, credentials_ok, translation_counter,
                 translation_next_expected, translation_queue,
                 translation_worker_running, worker, main, sessions, nseg,
                 tr_events, tl_events, tl_issued>>

\* One message of an entry as the consumer sees it; the entry's result id is
\* the index of its thread.
EntryEvent(kind, order) == [kind |-> kind, order |-> order]

PendingEventsNone(order) == <<>>

\* What a segment thread sends before transcribe_audio_file is called, in the
\* default context: the `result` placeholder of process_segment_chunks, then
\* the pending transcription_update of process_combined_audio.
PendingEvents(order) ==
  <<EntryEvent("placeholder", order), EntryEvent("pending", order)>>

\* `trans_order = transcription_counter`, the placeholder, and the start of
\* the transcription call in process_combined_audio.
SegRead(i) ==
  /\ seg[i].pc = "c_read"
  /\ seg' = [seg EXCEPT ![i].pc = "call",
                        ![i].trans_order = transcription_counter,
                        ![i].epoch = sessions,
                        ![i].events = PendingEvents(transcription_counter)]
  /\ UNCHANGED <<audio_lock, seg_vars, text_vars, command_vars, lock_free_writes,
                 worker_threads, is_recording, config, credentials_ok, transcription_counter,
                 translation_counter, translation_next_expected,
                 translation_queue, translation_worker_running, worker,
                 main, sessions, nseg, tr_events, tl_events, tl_issued>>

\* A stream callback that the adapter still invokes after its call has
\* returned.
InTranscribeCallOrAfter(s) == s.pc \in {"call", "q_load", "q_store", "q_put", "done"}

\* The thread is inside transcribe_audio_file, the only caller of its
\* stream_callback.
InTranscribeCall(s) == s.pc = "call"

\* emit_transcription_delta with a fragment that is kept: a streaming
\* transcription_update of the entry, sent from inside transcribe_audio_file.
SegDelta(i) ==
  /\ InTranscribeCall(seg[i])
  /\ Cardinality({k \in DOMAIN seg[i].events :
                     seg[i].events[k].kind = "delta"}) < MaxDeltas
  /\ seg' = [seg EXCEPT
               ![i].events = Append(@, EntryEvent("delta", seg[i].trans_order))]
  /\ UNCHANGED <<audio_lock, seg_vars, text_vars, command_vars, lock_free_writes,
                 worker_threads, is_recording, config, credentials_ok,
                 transcription_counter, translation_counter,
                 translation_next_expected, translation_queue,
                 translation_worker_running, worker, main, sessions, nseg,
                 tr_events, tl_events, tl_issued>>

\* The translation policy of process_combined_audio in the default context.
WantsTranslation == config.enable_translation /\ translation_worker_running

\* transcribe_audio_file returns. With usable text (returned or aggregated)
\* the terminal transcription_update is sent and the translation policy is
\* applied; without, the branch `No transcription produced` sends nothing.
SegReturn(i, usable) ==
  /\ seg[i].pc = "call"
  /\ IF usable
     THEN /\ tr_events' = Append(tr_events,
                                 [rid |-> i, order |-> seg[i].trans_order])
          /\ seg' = [seg EXCEPT
                       ![i].pc = IF WantsTranslation THEN "q_load" ELSE "done",
                       ![i].events =
                         Append(@, EntryEvent("terminal", seg[i].trans_order))]
     ELSE /\ seg' = [seg EXCEPT ![i].pc = "done"]
          /\ UNCHANGED tr_events
  /\ UNCHANGED <<audio_lock, seg_vars, text_vars, command_vars, lock_free_writes,
                 worker_threads, is_recording, config, credentials_ok, transcription_counter,
                 translation_counter, translation_next_expected,
                 translation_queue, translation_worker_running, worker,
                 main, sessions, nseg, tl_events, tl_issued>>

\* queue_translation: `translation_counter += 1`, the load.
QueueLoad(i) ==
  /\ seg[i].pc = "q_load"
  /\ seg' = [seg EXCEPT ![i].pc = "q_store", ![i].tmp = translation_counter]
  /\ UNCHANGED <<audio_lock, seg_vars, text_vars, command_vars, lock_free_writes,
                 worker_threads, is_recording, config, credentials_ok, transcription_counter,
                 translation_counter, translation_next_expected,
                 translation_queue, translation_worker_running, worker,
                 main, sessions, nseg, tr_events, tl_events, tl_issued>>

\* queue_translation: `translation_counter += 1`, the store.
QueueStore(i) ==
  /\ seg[i].pc = "q_store"
  /\ translation_counter' = seg[i].tmp + 1
  /\ seg' = [seg EXCEPT ![i].pc = "q_put", ![i].tmp = 0]
  /\ UNCHANGED <<audio_lock, seg_vars, text_vars, command_vars, lock_free_writes,
                 worker_threads, is_recording, config, credentials_ok, transcription_counter,
                 translation_next_expected, translation_queue,
                 translation_worker_running, worker, main, sessions, nseg,
                 tr_events, tl_events, tl_issued>>

\* queue_translation: `order = translation_counter` and
\* translation_queue.put((order, task)).
QueuePutTask(i) ==
  /\ seg[i].pc = "q_put"
  /\ seg' = [seg EXCEPT ![i].pc = "done"]
  /\ tl_issued' = [tl_issued EXCEPT
                     ![i] = [order |-> translation_counter, epoch |-> sessions]]
  /\ translation_queue' = QueuePut(translation_queue, <<translation_counter, i>>)
  /\ UNCHANGED <<audio_lock, seg_vars, text_vars, command_vars, lock_free_writes,
                 worker_threads, is_recording, config, credentials_ok, transcription_counter,
                 translation_counter, translation_next_expected,
                 translation_worker_running, worker, main, sessions, nseg,
                 tr_events, tl_events>>

\* ------------------------------------------------------------- main thread
\* start_recording up to the join inside stop_translation_worker: the flag is
\* cleared and the stop signal queued (both branches stop the worker first).
StartRecordingBegin(max) ==
  /\ main.pc = "idle"
  /\ ~is_recording
  /\ sessions < max
  /\ translation_worker_running' = FALSE
  /\ translation_queue' = QueuePut(translation_queue, StopSignal)
  /\ main' = [main EXCEPT !.pc = "join",
                          !.should_translate =
                             config.enable_translation /\ credentials_ok]
  /\ UNCHANGED <<audio_lock, seg_vars, text_vars, command_vars, lock_free_writes,
                 worker_threads, is_recording, config, credentials_ok, transcription_counter,
                 translation_counter, translation_next_expected, worker,
                 seg, sessions, nseg, tr_events, tl_events, tl_issued>>

\* start_recording resets audio_data, segment_frames, silence_frames_contig,
\* split_requested and segment_index inside `with audio_lock:`; these four
\* it assigns after the block has been left.
ResetOutsideLock == {"segment_active", "new_segment_requested",
                     "pre_roll_chunks", "pre_roll_frames"}

\* join(timeout=3.0) returns: the worker has exited, or it is still inside
\* an adapter call. Then the queue is cleared; with translation wanted the
\* expected order is realigned and start_translation_worker is called; the
\* session state is reset and the recording thread started.
StartRecordingFinish ==
  /\ main.pc = "join"
  /\ ~worker.alive \/ worker.pc = "call"
  /\ translation_queue' = <<>>
  /\ IF main.should_translate
     THEN /\ translation_next_expected' = translation_counter + 1
          /\ worker' = StartedWorker(worker, translation_counter + 1)
          /\ translation_worker_running' =
                RunningAfterStart(worker, translation_worker_running)
          /\ worker_threads' = ThreadsAfterStart(worker, worker_threads)
     ELSE UNCHANGED <<translation_next_expected, worker,
                      translation_worker_running, worker_threads>>
  /\ lock_free_writes' = lock_free_writes \cup ResetOutsideLock
  /\ is_recording' = TRUE
  /\ audio_lock = "free"
  /\ audio_lock' = AfterWith("start_recording")
  /\ sessions' = sessions + 1
  /\ main' = [main EXCEPT !.pc = "idle", !.should_translate = FALSE]
  /\ UNCHANGED <<seg_vars, text_vars, command_vars, config, credentials_ok, transcription_counter,
                 translation_counter, seg, nseg, tr_events, tl_events,
                 tl_issued>>

\* stop_recording: the flag is cleared, the recording thread joined, and
\* what is left in audio_data is flushed through save_audio_file, which
\* runs process_segment_chunks on the main thread.
StopRecording(flush, max) ==
  /\ main.pc = "idle"
  /\ is_recording
  /\ is_recording' = FALSE
  /\ IF flush /\ nseg < max
     THEN /\ audio_lock = "free"
          /\ audio_lock' = AfterWith("save_audio_file")
          /\ nseg' = nseg + 1
          /\ seg' = [seg EXCEPT ![nseg + 1].pc = "c_load"]
          /\ main' = [main EXCEPT !.pc = "flush", !.seg = nseg + 1]
     ELSE UNCHANGED <<nseg, seg, main, audio_lock>>
  /\ UNCHANGED <<seg_vars, text_vars, command_vars, lock_free_writes,
                 worker_threads, config, credentials_ok, transcription_counter,
                 translation_counter, translation_next_expected,
                 translation_queue, translation_worker_running, worker,
                 sessions, tr_events, tl_events, tl_issued>>

\* save_audio_file has returned: recording_stopped is sent.
StopRecordingDone ==
  /\ main.pc = "flush"
  /\ seg[main.seg].pc = "done"
  /\ main' = [main EXCEPT !.pc = "idle", !.seg = 0]
  /\ UNCHANGED <<audio_lock, seg_vars, text_vars, command_vars, lock_free_writes,
                 worker_threads, is_recording, config, credentials_ok, transcription_counter,
                 translation_counter, translation_next_expected,
                 translation_queue, translation_worker_running, worker,
                 seg, sessions, nseg, tr_events, tl_events, tl_issued>>

SegStep(i) ==
  \/ SegLoad(i)
  \/ SegStore(i)
  \/ SegRead(i)
  \/ \E usable \in BOOLEAN : SegReturn(i, usable)
  \/ QueueLoad(i)
  \/ QueueStore(i)
  \/ QueuePutTask(i)

WorkerStep ==
  \/ WorkerHead
  \/ WorkerGet
  \/ \E ok \in BOOLEAN : WorkerReturn(ok)
  \/ WorkerDrain

MainStep(maxSessions, maxSegments) ==
  \/ StartRecordingBegin(maxSessions)
  \/ StartRecordingFinish
  \/ \E flush \in BOOLEAN : StopRecording(flush, maxSegments)
  \/ StopRecordingDone

Next ==
  \/ MainStep(MaxSessions, MaxSegments)
  \/ Split(MaxSegments)
  \/ \E i \in Segments : SegStep(i)
  \/ \E i \in Segments : SegDelta(i)
  \/ WorkerStep

Spec == Init /\ [][Next]_vars

\* ------------------------------------------------- commands on the worker
\* The result id of the k-th translate_single request.
ManualId(k) == 0 - k

\* The configurations an update_config message may carry.
NewConfigs ==
  {[enable_translation |-> e, silence_rms_threshold |-> t.silence_rms,
    min_silence_seconds |-> t.min_silence] :
     e \in BOOLEAN,
     t \in {[silence_rms |-> Absent, min_silence |-> Absent], SentThresholds}}

\* A handler that applies every update_config message.
IsIgnoredNever(applied, force) == FALSE

\* `if initial_config_applied and not force: return`
IsIgnored(applied, force) == applied /\ ~force

\* `if 'silence_rms_threshold' in config ...: SILENCE_RMS_THRESHOLD = ...` and
\* the same for min_silence_seconds: a key that is absent keeps the value.
AppliedThresholds(new_config, old) ==
  [silence_rms |-> IF new_config.silence_rms_threshold # Absent
                    THEN new_config.silence_rms_threshold ELSE old.silence_rms,
   min_silence |-> IF new_config.min_silence_seconds # Absent
                    THEN new_config.min_silence_seconds ELSE old.min_silence]

\* handle_message, update_config: a message after the first is ignored
\* unless it is forced; otherwise the configuration is replaced, the
\* thresholds it carries are applied, and with translation enabled and
\* credentials present start_translation_worker is called, otherwise a
\* worker flagged as running is stopped.
UpdateConfig(new_config, credentials, force) ==
  /\ main.pc = "idle"
  /\ configs < MaxConfigs
  /\ configs' = configs + 1
  /\ IF IsIgnored(initial_config_applied, force)
     THEN /\ handled' = [handled EXCEPT !.config = @ + 1]
          /\ UNCHANGED <<config, credentials_ok, initial_config_applied,
                         thresholds, worker, translation_worker_running,
                         worker_threads, translation_queue, main>>
     ELSE /\ UNCHANGED handled
          /\ config' = new_config
          /\ credentials_ok' = credentials
          /\ initial_config_applied' = TRUE
          /\ thresholds' = AppliedThresholds(new_config, thresholds)
          /\ IF new_config.enable_translation /\ credentials
             THEN /\ worker' = StartedWorker(worker, translation_next_expected)
                  /\ translation_worker_running' =
                        RunningAfterStart(worker, translation_worker_running)
                  /\ worker_threads' = ThreadsAfterStart(worker, worker_threads)
                  /\ UNCHANGED <<translation_queue, main>>
             ELSE IF translation_worker_running
             THEN /\ translation_worker_running' = FALSE
                  /\ translation_queue' = QueuePut(translation_queue, StopSignal)
                  /\ main' = [main EXCEPT !.pc = "join_config"]
                  /\ UNCHANGED <<worker, worker_threads>>
             ELSE UNCHANGED <<worker, translation_worker_running,
                              worker_threads, translation_queue, main>>
  /\ UNCHANGED <<audio_lock, stream_vars, simple_recording_mode, text_vars,
                 manual, recording_errors,
                 lock_free_writes, is_recording, transcription_counter,
                 translation_counter, translation_next_expected, seg,
                 sessions, nseg, tr_events, tl_events, tl_issued>>

\* The join(timeout=3.0) of that stop_translation_worker returns.
UpdateConfigJoined ==
  /\ main.pc = "join_config"
  /\ ~worker.alive \/ worker.pc = "call"
  /\ main' = [main EXCEPT !.pc = "idle"]
  /\ UNCHANGED <<audio_lock, seg_vars, text_vars, command_vars, lock_free_writes,
                 worker_threads, is_recording, config, credentials_ok,
                 transcription_counter, translation_counter,
                 translation_next_expected, translation_queue,
                 translation_worker_running, worker, seg, sessions, nseg,
                 tr_events, tl_events, tl_issued>>

\* handle_message, translate_single: a request without text or without
\* credentials is answered with an error event; any other starts the worker
\* when the running flag is down and goes through queue_translation, here
\* on the main thread with no segment thread at work.
TranslateSingle(has_text) ==
  /\ main.pc = "idle"
  /\ manual < MaxManual
  /\ manual' = manual + 1
  /\ IF has_text /\ credentials_ok
     THEN /\ IF translation_worker_running
             THEN UNCHANGED <<worker, translation_worker_running, worker_threads>>
             ELSE /\ worker' = StartedWorker(worker, translation_next_expected)
                  /\ translation_worker_running' =
                        RunningAfterStart(worker, translation_worker_running)
                  /\ worker_threads' = ThreadsAfterStart(worker, worker_threads)
          /\ translation_counter' = translation_counter + 1
          /\ translation_queue' =
                QueuePut(translation_queue,
                         <<translation_counter + 1, ManualId(manual + 1)>>)
     ELSE UNCHANGED <<worker, translation_worker_running, worker_threads,
                      translation_counter, translation_queue>>
  /\ UNCHANGED <<audio_lock, seg_vars, text_vars, configs, recording_errors,
                 initial_config_applied, thresholds,
                 lock_free_writes, is_recording, config, credentials_ok, transcription_counter,
                 translation_next_expected, seg, main, sessions, nseg,
                 tr_events, tl_events, tl_issued>>

\* The recording_error sent a second time.
ErrorsAfterRetry(errors) == errors + 2

\* `send_message({"type": "recording_error", ...})`, once.
ErrorsAfterDeviceFailure(errors) == errors + 1

\* start_recording when check_audio_device returns False: the error event
\* and `return`, before the translation worker is touched.
StartRecordingNoDevice ==
  /\ main.pc = "idle"
  /\ ~is_recording
  /\ recording_errors < MaxDeviceFailures
  /\ recording_errors' = ErrorsAfterDeviceFailure(recording_errors)
  /\ UNCHANGED <<audio_lock, seg_vars, text_vars, manual, configs,
                 initial_config_applied, thresholds, lock_free_writes,
                 worker_threads, is_recording, config, credentials_ok,
                 transcription_counter, translation_counter,
                 translation_next_expected, translation_queue,
                 translation_worker_running, worker, seg, main, sessions,
                 nseg, tr_events, tl_events, tl_issued>>

NextCommands ==
  \/ \E new_config \in NewConfigs, credentials, force \in BOOLEAN :
       UpdateConfig(new_config, credentials, force)
  \/ UpdateConfigJoined
  \/ \E has_text \in BOOLEAN : TranslateSingle(has_text)
  \/ StartRecordingNoDevice
  \/ StartRecordingBegin(MaxSessions)
  \/ StartRecordingFinish
  \/ StopRecording(FALSE, 0)
  \/ WorkerStep

\* The commands of the main thread against the translation worker, no
\* segment being cut.
SpecCommands == Init /\ [][NextCommands]_vars

\* The worker is a thread of its own that the interpreter keeps scheduling:
\* queue.get returns within its 2 s timeout, time.sleep(0.1) ends, and an
\* adapter call is taken to return.
SpecCommandsFair == SpecCommands /\ WF_vars(WorkerStep)

\* ------------------------------------------------------------ segmentation
SAMPLE_RATE == 44100
BLOCKSIZE == 1024
PRE_ROLL_SECONDS == 1
MIN_SILENCE_SEC_FOR_SPLIT == 1

\* The input stream: silence, then a tone above the threshold, then silence
\* again (the last given in half seconds).
LeadSilenceSeconds == 2
ToneSeconds == 3
TrailSilenceHalfSeconds == 3

\* When speech resumes, a second tone follows the first and the trailing
\* silence comes after it. Resuming "late", it starts ResumeGapBlocks blocks
\* after the silence has reached MIN_SILENCE_SEC_FOR_SPLIT (within the 100 ms
\* between two polls of record_audio, a little over four blocks); resuming
\* "early", after a pause of that minimum divided by ShortPauseDivisor.
ResumeGapBlocks == 2
ShortPauseDivisor == 2
SecondToneSeconds == 1

ToneStart == LeadSilenceSeconds * SAMPLE_RATE
ToneEnd == ToneStart + ToneSeconds * SAMPLE_RATE
PauseFrames ==
  IF resumes = "early"
  THEN (MIN_SILENCE_SEC_FOR_SPLIT * SAMPLE_RATE) \div ShortPauseDivisor
  ELSE MIN_SILENCE_SEC_FOR_SPLIT * SAMPLE_RATE + ResumeGapBlocks * BLOCKSIZE
SecondToneStart == ToneEnd + PauseFrames
SecondToneEnd == SecondToneStart + SecondToneSeconds * SAMPLE_RATE
StreamFrames ==
  (IF resumes # "never" THEN SecondToneEnd ELSE ToneEnd)
    + (TrailSilenceHalfSeconds * SAMPLE_RATE) \div 2

\* The stream arrives in blocks of BLOCKSIZE frames, the last one shorter.
NumBlocks == (StreamFrames + BLOCKSIZE - 1) \div BLOCKSIZE
BlockStart(k) == (k - 1) * BLOCKSIZE
BlockFrames(k) ==
  IF k * BLOCKSIZE <= StreamFrames THEN BLOCKSIZE ELSE StreamFrames - BlockStart(k)

\* rms >= SILENCE_RMS_THRESHOLD for a block: a block of tone is loud, a block
\* of silence is not, a block that holds both may fall either way.
Overlaps(k, from, to) == BlockStart(k) < to /\ BlockStart(k) + BlockFrames(k) > from
HasTone(k) ==
  \/ Overlaps(k, ToneStart, ToneEnd)
  \/ resumes # "never" /\ Overlaps(k, SecondToneStart, SecondToneEnd)
HasSilence(k) ==
  \/ Overlaps(k, 0, ToneStart)
  \/ Overlaps(k, ToneEnd, IF resumes # "never" THEN SecondToneStart ELSE StreamFrames)
  \/ resumes # "never" /\ Overlaps(k, SecondToneEnd, StreamFrames)
RmsOutcome(k, loud) == IF loud THEN HasTone(k) ELSE HasSilence(k)

\* Sum of len(ch) over a list of chunks: every block has BLOCKSIZE frames
\* but the last of the stream.
ChunkFrames(chunks) ==
  LET short == {j \in DOMAIN chunks : chunks[j] = NumBlocks}
  IN  (Len(chunks) - Cardinality(short)) * BLOCKSIZE
        + Cardinality(short) * BlockFrames(NumBlocks)

\* A pre-roll buffer that is never trimmed.
TrimPreRollNever(chunks, frames) == [chunks |-> chunks, frames |-> frames]

\* `while pre_roll_frames > max_pre and pre_roll_chunks:` pop from the front.
RECURSIVE TrimPreRoll(_, _)
TrimPreRoll(chunks, frames) ==
  IF frames > PRE_ROLL_SECONDS * SAMPLE_RATE /\ chunks # <<>>
  THEN TrimPreRoll(Tail(chunks), frames - BlockFrames(Head(chunks)))
  ELSE [chunks |-> chunks, frames |-> frames]

\* A split as soon as the segment holds any silence at all.
SplitReachedAtFirstSilence(silence) == silence > 0

\* `silence_frames_contig >= int(MIN_SILENCE_SEC_FOR_SPLIT * SAMPLE_RATE)`
SplitReached(silence) == silence >= MIN_SILENCE_SEC_FOR_SPLIT * SAMPLE_RATE

\* time.time() when the callback for block k runs, in milliseconds: the
\* stream is delivered in real time from StartTimeMs on.
StartTimeMs == 1000
NowMs(k) == StartTimeMs + (k * BLOCKSIZE * 1000) \div SAMPLE_RATE

\* A callback that reports the volume of every block.
VolumeDueAlways(now, last) == TRUE

\* `if now - last_volume_emit >= 0.1:`
VOLUME_INTERVAL_MS == 100
VolumeDue(now, last) == now - last >= VOLUME_INTERVAL_MS

\* The input stream calls audio_callback while record_audio is inside its
\* `with sd.InputStream(...)` block.
StreamOpen(r) == r \in {"loop", "split"}

\* A callback that takes the voice-activity path in every mode.
IsSimpleModeNever(mode) == FALSE

\* `if simple_recording_mode:` in audio_callback.
IsSimpleMode(mode) == mode

\* A callback that reports the start of speech and never its end.
VoiceActivityOnsetOnly(onset, split) == IF onset THEN <<TRUE>> ELSE <<>>

\* The voice_activity events of one callback: active true at voice entry,
\* active false where the split is requested.
VoiceActivity(onset, split) ==
  (IF onset THEN <<TRUE>> ELSE <<>>) \o (IF split THEN <<FALSE>> ELSE <<>>)

\* audio_callback for the next block of the stream, under audio_lock.
AudioCallback(loud) ==
  /\ is_recording
  /\ StreamOpen(recorder)
  /\ fed < NumBlocks
  /\ RmsOutcome(fed + 1, loud)
  /\ LET k == fed + 1
         frames == BlockFrames(k)
         \* not in a segment: maintain the pre-roll buffer
         pre1 == IF ~segment_active
                 THEN TrimPreRoll(Append(pre_roll_chunks, k), pre_roll_frames + frames)
                 ELSE [chunks |-> pre_roll_chunks, frames |-> pre_roll_frames]
         \* voice entry: start a segment and merge the pre-roll into it
         onset == ~segment_active /\ loud
         active == segment_active \/ onset
         merged == onset /\ pre1.chunks # <<>>
         data1 == IF merged THEN audio_data \o pre1.chunks ELSE audio_data
         frames1 == IF onset THEN (IF merged THEN ChunkFrames(pre1.chunks) ELSE 0)
                    ELSE segment_frames
         silence1 == IF onset THEN 0 ELSE silence_frames_contig
         pre2 == IF merged THEN [chunks |-> <<>>, frames |-> 0] ELSE pre1
         \* within a segment: save the block and count the silence
         silence2 == IF ~active THEN silence1
                     ELSE IF loud THEN 0 ELSE silence1 + frames
         split == active /\ ~loud /\ SplitReached(silence2)
     IN  /\ IF IsSimpleMode(simple_recording_mode)
            THEN \* `if simple_recording_mode:` append and return
                 /\ audio_data' = Append(audio_data, k)
                 /\ appended' = Append(appended, k)
                 /\ UNCHANGED <<pre_roll_chunks, pre_roll_frames,
                                new_segment_requested, segment_frames,
                                silence_frames_contig, split_requested,
                                segment_active, voice_events>>
            ELSE /\ pre_roll_chunks' = pre2.chunks
                 /\ pre_roll_frames' = pre2.frames
                 /\ new_segment_requested' = (new_segment_requested \/ onset)
                 /\ audio_data' = IF active THEN Append(data1, k) ELSE data1
                 /\ appended' = appended \o (IF merged THEN pre1.chunks ELSE <<>>)
                                         \o (IF active THEN <<k>> ELSE <<>>)
                 /\ segment_frames' = IF active THEN frames1 + frames ELSE frames1
                 /\ silence_frames_contig' = silence2
                 /\ split_requested' = (split_requested \/ split)
                 /\ segment_active' = (active /\ ~split)
                 /\ voice_events' = voice_events \o VoiceActivity(onset, split)
         /\ fed' = k
         /\ loud_blocks' = IF loud THEN loud_blocks \cup {k} ELSE loud_blocks
         /\ IF VolumeDue(NowMs(k), last_volume_emit)
            THEN /\ last_volume_emit' = NowMs(k)
                 /\ volume_events' = Append(volume_events,
                                            [at |-> NowMs(k), block |-> k])
            ELSE UNCHANGED volume_vars
  /\ audio_lock = "free"
  /\ audio_lock' = AfterWith("audio_callback")
  /\ UNCHANGED <<is_recording, pipe_vars, text_vars, segment_index, recorder, stopper,
                 finalized, resumes, control_vars>>

\* record_audio, the head of `while is_recording:` up to the test of
\* split_requested.
RecordAudioLoop ==
  /\ recorder = "loop"
  /\ IF is_recording
     THEN /\ new_segment_requested' = FALSE
          /\ recorder' = IF split_requested THEN "split" ELSE "loop"
     ELSE /\ recorder' = "exited"
          /\ UNCHANGED new_segment_requested
  /\ UNCHANGED <<is_recording, pipe_vars, text_vars, audio_lock, audio_data, segment_frames,
                 silence_frames_contig, split_requested, segment_active,
                 pre_roll_chunks, pre_roll_frames, segment_index, stopper,
                 fed, loud_blocks, finalized, appended, resumes, volume_vars,
                 control_vars, voice_events>>

TakenFromKept(chunks) == chunks

\* `local_chunks = audio_data; audio_data = []` under audio_lock: what the
\* accumulator holds once its list has been taken.
TakenFrom(chunks) == <<>>

\* record_audio, the split under audio_lock: audio_data is taken and handed
\* to process_segment_chunks. segment_frames and silence_frames_contig are
\* assigned as locals of record_audio, so the globals keep their values.
RecordAudioSplit ==
  /\ recorder = "split"
  /\ finalized' = IF audio_data # <<>> THEN Append(finalized, audio_data)
                  ELSE finalized
  /\ audio_data' = TakenFrom(audio_data)
  /\ split_requested' = FALSE
  /\ segment_index' = segment_index + 1
  /\ recorder' = "loop"
  /\ audio_lock = "free"
  /\ audio_lock' = AfterWith("record_audio")
  /\ UNCHANGED <<is_recording, pipe_vars, text_vars, segment_frames,
                 silence_frames_contig, segment_active, new_segment_requested,
                 pre_roll_chunks, pre_roll_frames, stopper, fed, loud_blocks,
                 appended, resumes, volume_vars,
                 control_vars, voice_events>>

\* stop_recording once the stream has been delivered: the flag is cleared
\* and the recording thread joined.
StopStreamBegin ==
  /\ stopper = "idle"
  /\ is_recording
  /\ fed = NumBlocks
  /\ is_recording' = FALSE
  /\ stopper' = "join"
  /\ UNCHANGED <<pipe_vars, text_vars, audio_lock, audio_data, segment_frames, silence_frames_contig,
                 split_requested, segment_active, new_segment_requested,
                 pre_roll_chunks, pre_roll_frames, segment_index, recorder,
                 fed, loud_blocks, finalized, appended, resumes, volume_vars,
                 control_vars, voice_events>>

\* `recording_thread.join()` returns once record_audio has ended, through
\* its loop condition or through one of its except branches.
ThreadEnded(r) == r \in {"exited", "failed"}

\* stop_recording after the join: `if audio_data: save_audio_file()`.
StopStreamFinish ==
  /\ stopper = "join"
  /\ ThreadEnded(recorder)
  /\ finalized' = IF audio_data # <<>> THEN Append(finalized, audio_data)
                  ELSE finalized
  /\ audio_data' = TakenFrom(audio_data)
  /\ stopper' = "done"
  /\ audio_lock = "free"
  /\ audio_lock' = AfterWith("save_audio_file")
  /\ UNCHANGED <<is_recording, pipe_vars, text_vars, segment_frames,
                 silence_frames_contig, split_requested, segment_active,
                 new_segment_requested, pre_roll_chunks, pre_roll_frames,
                 segment_index, recorder, fed, loud_blocks, appended,
                 resumes, volume_vars,
                 control_vars, voice_events>>

InitStream ==
  /\ is_recording = TRUE
  /\ InitPipe
  /\ InitSeg
  /\ InitText
  /\ resumes = "never"
  /\ simple_recording_mode = FALSE
  /\ audio_lock = "free"

NextStream ==
  \/ \E loud \in BOOLEAN : AudioCallback(loud)
  \/ RecordAudioLoop
  \/ RecordAudioSplit
  \/ StopStreamBegin
  \/ StopStreamFinish

SpecSeg == InitStream /\ [][NextStream]_vars

\* The stream in which speech resumes right after the split.
InitResume ==
  /\ is_recording = TRUE
  /\ InitPipe
  /\ InitSeg
  /\ InitText
  /\ resumes = "late"
  /\ simple_recording_mode = FALSE
  /\ audio_lock = "free"

SpecResume == InitResume /\ [][NextStream]_vars

\* record_audio sleeps 100 ms between two tests of split_requested: the
\* blocks of 1024 frames that arrive in that time, rounded up.
POLL_SLEEP_MS == 100
PollBlocks == (POLL_SLEEP_MS * SAMPLE_RATE + 1000 * BLOCKSIZE - 1) \div (1000 * BLOCKSIZE)

\* The frames of the blocks delivered since the last block at or above the
\* threshold.
RECURSIVE SilentRunFrom(_)
SilentRunFrom(k) ==
  IF k = 0 \/ k \in loud_blocks THEN 0 ELSE BlockFrames(k) + SilentRunFrom(k - 1)

\* record_audio has tested split_requested since the callback set it, or
\* fewer blocks than arrive between two polls have been delivered since:
\* the block PollBlocks back is not one that asked for the split still
\* waiting in audio_data.
PollNotOverdue ==
  ~(/\ split_requested
    /\ LET b == fed - PollBlocks
       IN  /\ \E j \in DOMAIN audio_data : audio_data[j] = b
           /\ b \notin loud_blocks
           /\ SplitReached(SilentRunFrom(b)))

\* audio_callback in a run where record_audio polls on time.
AudioCallbackTimely == PollNotOverdue /\ \E loud \in BOOLEAN : AudioCallback(loud)

RecordAudioStep == RecordAudioLoop \/ RecordAudioSplit

NextVoice ==
  \/ AudioCallbackTimely
  \/ RecordAudioStep
  \/ StopStreamBegin
  \/ StopStreamFinish

\* The stream in which speech resumes after the split, with both threads
\* scheduled: the input stream keeps calling audio_callback while it has
\* blocks to deliver, and record_audio wakes from its sleep.
SpecVoice ==
  InitResume /\ [][NextVoice]_vars
    /\ WF_vars(AudioCallbackTimely) /\ WF_vars(RecordAudioStep)

\* The stream in which speech resumes after a pause too short for a split.
InitPause ==
  /\ is_recording = TRUE
  /\ InitPipe
  /\ InitSeg
  /\ InitText
  /\ resumes = "early"
  /\ simple_recording_mode = FALSE
  /\ audio_lock = "free"

SpecPause == InitPause /\ [][NextStream]_vars

\* stop_recording while the stream is still being delivered: the same
\* statements as StopStreamBegin, at any earlier block.
StopStreamEarly ==
  /\ stopper = "idle"
  /\ is_recording
  /\ fed < NumBlocks
  /\ is_recording' = FALSE
  /\ stopper' = "join"
  /\ UNCHANGED <<pipe_vars, text_vars, audio_lock, audio_data, segment_frames, silence_frames_contig,
                 split_requested, segment_active, new_segment_requested,
                 pre_roll_chunks, pre_roll_frames, segment_index, recorder,
                 fed, loud_blocks, finalized, appended, resumes, volume_vars,
                 control_vars, voice_events>>

NextStop ==
  \/ NextStream
  \/ StopStreamEarly

\* The stream with a stop command at any point of it.
SpecStop == InitStream /\ [][NextStop]_vars

\* handle_message, start_voice_input: simple_recording_mode is set and
\* start_recording called; the state when it has returned.
InitVoiceInput ==
  /\ is_recording = TRUE
  /\ InitPipe
  /\ InitSeg
  /\ InitText
  /\ resumes = "never"
  /\ simple_recording_mode = TRUE
  /\ audio_lock = "free"

NextVoiceInput ==
  \/ \E loud \in BOOLEAN : AudioCallback(loud)
  \/ RecordAudioLoop
  \/ StopStreamBegin
  \/ StopStreamEarly
  \/ StopStreamFinish

\* A voice-input session over the stream, stopped at any point of it.
SpecVoiceInput == InitVoiceInput /\ [][NextVoiceInput]_vars

\* record_audio ends in one of its except branches (sd.PortAudioError when
\* the input stream cannot be opened, or any other exception): a
\* recording_error is sent and the thread ends; is_recording is not written.
RecordAudioError ==
  /\ recorder = "loop"
  /\ is_recording
  /\ recording_errors < MaxDeviceFailures
  /\ recorder' = "failed"
  /\ recording_errors' = ErrorsAfterDeviceFailure(recording_errors)
  /\ UNCHANGED <<is_recording, text_vars, audio_lock, config, credentials_ok,
                 transcription_counter, translation_counter,
                 translation_next_expected, translation_queue,
                 translation_worker_running, worker, seg, main, sessions, nseg,
                 tl_issued, tr_events, tl_events, worker_threads, manual,
                 configs, initial_config_applied, thresholds, lock_free_writes,
                 audio_data, segment_frames, silence_frames_contig,
                 split_requested, segment_active, new_segment_requested,
                 pre_roll_chunks, pre_roll_frames, segment_index, stopper, fed,
                 loud_blocks, finalized, appended, resumes, volume_vars,
                 control_vars, voice_events>>

\* A start_recording that never takes the early return.
AlreadyRecordingNever(flag) == FALSE

\* `if is_recording:` at the top of start_recording.
AlreadyRecording(flag) == flag

\* handle_message, start_recording, while the stream is being delivered: the
\* mode is set to normal, then start_recording returns at once when a
\* recording is in progress; otherwise it stops or restarts the translation
\* worker (none is alive here, so the join has nothing to wait for), empties
\* the queue, resets the session state and starts a new recording thread.
StartRecordingStream ==
  /\ stopper \in {"idle", "done"}
  /\ simple_recording_mode' = FALSE
  /\ IF AlreadyRecording(is_recording)
     THEN /\ handled.start < MaxRedundant
          /\ handled' = [handled EXCEPT !.start = @ + 1]
          /\ UNCHANGED <<is_recording, audio_lock, translation_next_expected,
                         translation_queue, translation_worker_running, worker,
                         sessions, worker_threads, lock_free_writes,
                         audio_data, segment_frames, silence_frames_contig,
                         split_requested, segment_active, new_segment_requested,
                         pre_roll_chunks, pre_roll_frames, segment_index,
                         recorder, stopper>>
     ELSE /\ sessions < MaxStreamRestarts
          /\ ~worker.alive
          /\ translation_queue' = <<>>
          /\ IF config.enable_translation /\ credentials_ok
             THEN /\ translation_next_expected' = translation_counter + 1
                  /\ worker' = StartedWorker(worker, translation_counter + 1)
                  /\ translation_worker_running' = RunningAfterStart(worker, FALSE)
                  /\ worker_threads' = ThreadsAfterStart(worker, worker_threads)
             ELSE /\ translation_worker_running' = FALSE
                  /\ UNCHANGED <<translation_next_expected, worker, worker_threads>>
          /\ is_recording' = TRUE
          /\ audio_lock = "free"
          /\ audio_lock' = AfterWith("start_recording")
          /\ audio_data' = <<>>
          /\ segment_frames' = 0
          /\ silence_frames_contig' = 0
          /\ split_requested' = FALSE
          /\ segment_index' = 1
          /\ segment_active' = FALSE
          /\ new_segment_requested' = FALSE
          /\ pre_roll_chunks' = <<>>
          /\ pre_roll_frames' = 0
          /\ lock_free_writes' = lock_free_writes \cup ResetOutsideLock
          /\ recorder' = "loop"
          /\ stopper' = "idle"
          /\ sessions' = sessions + 1
          /\ UNCHANGED handled
  /\ UNCHANGED <<text_vars, config, credentials_ok, transcription_counter,
                 translation_counter, seg, main, nseg, tl_issued, tr_events,
                 tl_events, command_vars, fed, loud_blocks, finalized,
                 appended, resumes, volume_vars, voice_events>>

\* stop_recording when no recording is in progress: `if not is_recording:
\* return`.
StopRecordingIgnored ==
  /\ stopper \in {"idle", "done"}
  /\ ~is_recording
  /\ handled.stop < MaxRedundant
  /\ handled' = [handled EXCEPT !.stop = @ + 1]
  /\ UNCHANGED <<is_recording, pipe_vars, text_vars, audio_lock, audio_data,
                 segment_frames, silence_frames_contig, split_requested,
                 segment_active, new_segment_requested, pre_roll_chunks,
                 pre_roll_frames, segment_index, recorder, stopper, fed,
                 loud_blocks, finalized, appended, resumes, volume_vars,
                 simple_recording_mode, voice_events>>

NextControl ==
  \/ NextStream
  \/ RecordAudioError
  \/ StartRecordingStream
  \/ StopRecordingIgnored

\* The stream with the commands and the failures that can reach the
\* recording thread: start while recording or after the stop, stop while
\* idle, and a recording thread that ends with an error.
SpecControl == InitStream /\ [][NextControl]_vars

\* ------------------------------------------------------ one adapter call
\* An update that carries the latest fragment alone.
CombinedLatest(collected) == collected[Len(collected)]

\* `combined = _sanitize_utf8_text(''.join(collected_transcription))`, and
\* the same over collected_parts in on_delta.
Combined(collected) == SanitizeUtf8Text(Join(collected))

\* The adapter hands the next fragment to the stream callback
\* (emit_transcription_delta, on_delta): a fragment that sanitizes to ''
\* is dropped, any other is kept and sent with the text aggregated so far.
StreamDelta ==
  /\ ~call.done
  /\ call.next <= Len(call.fragments)
  /\ call' = [call EXCEPT !.next = call.next + 1]
  /\ LET safe_delta == SanitizeUtf8Text(call.fragments[call.next])
         collected == Append(entry.collected, safe_delta)
     IN  IF IsDropped(safe_delta)
         THEN UNCHANGED entry
         ELSE entry' = [entry EXCEPT
                  !.collected = collected,
                  !.updates = Append(entry.updates,
                                [text |-> Combined(collected),
                                 partial |-> safe_delta])]
  /\ UNCHANGED <<is_recording, pipe_vars, seg_vars, audio_lock>>

\* transcribe_audio_file returns in process_combined_audio: the final
\* transcription_update is sent when final_transcription is not empty.
TranscriptionReturn ==
  /\ ~call.done
  /\ call.stream = "transcription"
  /\ call.next > Len(call.fragments)
  /\ call' = [call EXCEPT !.done = TRUE]
  /\ LET final_transcription ==
           FinalTranscription(call.returned, Aggregated(entry.collected))
     IN  entry' = [entry EXCEPT !.terminal =
                     IF final_transcription # <<>>
                     THEN <<[text |-> final_transcription, failed |-> FALSE]>>
                     ELSE <<>>]
  /\ UNCHANGED <<is_recording, pipe_vars, seg_vars, audio_lock>>

\* _translate_text_dispatch returns in perform_translation_task: the final
\* event when translation_text is not empty, else the translation_failed
\* event with what was collected.
TranslationReturn ==
  /\ ~call.done
  /\ call.stream = "translation"
  /\ call.next > Len(call.fragments)
  /\ call' = [call EXCEPT !.done = TRUE]
  /\ entry' = [entry EXCEPT !.terminal =
        IF IsText(call.returned) /\ call.returned # <<>>
        THEN <<[text |-> SanitizeUtf8Text(Strip(call.returned)), failed |-> FALSE]>>
        ELSE <<[text |-> Aggregated(entry.collected), failed |-> TRUE]>>]
  /\ UNCHANGED <<is_recording, pipe_vars, seg_vars, audio_lock>>

\* Any adapter behaviour within the bounds: what it streams, what it returns.
InitCall ==
  /\ is_recording = FALSE
  /\ InitPipe
  /\ InitSeg
  /\ call \in [stream : {"transcription", "translation"},
               fragments : FragmentLists, returned : Values,
               next : {1}, done : {FALSE}]
  /\ entry = NoEntry
  /\ resumes = "never"
  /\ simple_recording_mode = FALSE
  /\ audio_lock = "free"

NextCall ==
  \/ StreamDelta
  \/ TranscriptionReturn
  \/ TranslationReturn

SpecText == InitCall /\ [][NextCall]_vars

\* One session: start_recording once, any number of segments up to the
\* bound, stop_recording; the worker started by start_recording is the only
\* one there is.
NextSession ==
  \/ MainStep(1, MaxSessionSegments)
  \/ Split(MaxSessionSegments)
  \/ \E i \in Segments : SegStep(i)
  \/ WorkerStep

SpecSession == Init /\ [][NextSession]_vars
\* ------------------------------------------------------------------ claims
Issued(i) == seg[i].trans_order > 0
Enqueued(i) == tl_issued[i].order > 0
QueuedTasks == {translation_queue[j] : j \in 1..Len(translation_queue)} \ {StopSignal}

\* C1: within a session the terminal translation_update events leave the
\* worker in strictly ascending order of their order field, so no order is
\* released twice, whatever the interleaving of the enqueuing threads.
C1_TranslationReleaseAscending ==
  \A a, b \in DOMAIN tl_events :
    a < b => tl_events[a].order < tl_events[b].order

\* Three translations released, the second segment's first and one of them
\* as translation_failed.
C1_Witness ==
  /\ Len(tl_events) = 3
  /\ tl_events[1].rid = 2
  /\ \E k \in DOMAIN tl_events : ~tl_events[k].ok

\* C2: the terminal transcription_update events are emitted in strictly
\* ascending order of their order field, whichever call returns first.
C2_TranscriptionReleaseAscending ==
  \A a, b \in DOMAIN tr_events :
    a < b => tr_events[a].order < tr_events[b].order

\* C3: translations are released in the order the segments were recorded.
C3_TranslationsFollowRecordingOrder ==
  \A a, b \in DOMAIN tl_events :
    a < b => tl_events[a].rid < tl_events[b].rid

\* C4: each stream's counter is advanced atomically, so no two entries of a
\* stream hold the same order value.
C4_OrdersUnique ==
  \A i, j \in Segments :
    i # j =>
      /\ Issued(i) /\ Issued(j) => seg[i].trans_order # seg[j].trans_order
      /\ Enqueued(i) /\ Enqueued(j) => tl_issued[i].order # tl_issued[j].order

\* No queue_translation holds a counter value it has yet to store or read.
NoEnqueueInProgress == \A i \in Segments : seg[i].pc \notin {"q_store", "q_put"}

\* C5: after a failed translation of order k the worker advances past k and
\* the queued tasks of higher order are released. Stated on the states in
\* which nothing more can arrive below the counter: once order k has been
\* released as failed, a queued task of higher order is never left waiting
\* behind an expected order that no queued task carries.
C5_NonStallOnFailure ==
  \A k \in DOMAIN tl_events :
    \A t \in QueuedTasks :
      (/\ ~tl_events[k].ok
       /\ t[1] > tl_events[k].order
       /\ NoEnqueueInProgress
       /\ worker.alive /\ worker.pc \in {"head", "get", "drain"}
       /\ worker.next_expected_order <= translation_counter)
      => \E u \in QueuedTasks : u[1] = worker.next_expected_order

\* C6: a transcription that fails or yields no text still ends with a
\* terminal transcription_update for its entry.
C6_FailedTranscriptionTerminal ==
  \A i \in Segments :
    seg[i].pc = "done" => \E k \in DOMAIN tr_events : tr_events[k].rid = i

\* C7: an order issued after start_recording has run again is greater than
\* every order issued on the same stream before it.
C7_RestartContinuesNumbering ==
  \A i, j \in Segments :
    /\ Issued(i) /\ Issued(j) /\ seg[i].epoch < seg[j].epoch
         => seg[i].trans_order < seg[j].trans_order
    /\ Enqueued(i) /\ Enqueued(j) /\ tl_issued[i].epoch < tl_issued[j].epoch
         => tl_issued[i].order < tl_issued[j].order

\* C8: once start_recording has restarted the worker with translation on,
\* a task put on the queue after that restart finds a running worker whose
\* expected order is not beyond the task's, also when the task's thread or
\* the previous worker's adapter call began before the restart. Stated for
\* runs in which every task holds an order of its own.
C8_RestartRealignsCursor ==
  \A t \in QueuedTasks :
    (/\ main.pc = "idle"
     /\ credentials_ok
     /\ tl_issued[t[2]].epoch = sessions
     /\ \A i, j \in Segments :
          i # j /\ Enqueued(i) /\ Enqueued(j)
            => tl_issued[i].order # tl_issued[j].order)
    => /\ worker.alive
       /\ translation_worker_running
       /\ t[1] >= worker.next_expected_order

\* C9: a call that began before start_recording reset the streams sends no
\* event when it returns after the reset.
C9_InFlightDiscarded ==
  [][/\ tr_events' # tr_events
          => seg[tr_events'[Len(tr_events')].rid].epoch = sessions
     /\ tl_events' # tl_events => worker.epoch = sessions]_vars
PreRollBlocks == (PRE_ROLL_SECONDS * SAMPLE_RATE) \div BLOCKSIZE
SplitSilenceBlocks ==
  (MIN_SILENCE_SEC_FOR_SPLIT * SAMPLE_RATE + BLOCKSIZE - 1) \div BLOCKSIZE
OnsetBlock == CHOOSE k \in loud_blocks : \A j \in loud_blocks : k <= j
LastLoudBlock == CHOOSE k \in loud_blocks : \A j \in loud_blocks : j <= k
BlockRange(a, b) == [n \in 1..(b - a + 1) |-> a + n - 1]
ToneDelivered == fed * BLOCKSIZE >= ToneEnd

\* The blocks the code puts into the segment: the pre-roll, whose last block
\* is the onset block, then every block from the onset block on, up to the
\* one at which the silence after the tone reaches the split length.
SplitSegment ==
  BlockRange(OnsetBlock - PreRollBlocks + 1, OnsetBlock)
    \o BlockRange(OnsetBlock, LastLoudBlock + SplitSilenceBlocks)

\* C10 as the code has it: for silence, tone, silence (longer than the split
\* length) exactly one segment is finalized, none before the tone has been
\* delivered in full, and it holds the pre-roll blocks, the blocks of the
\* tone and the trailing silence only up to the block at which contiguous
\* silence reaches MIN_SILENCE_SEC_FOR_SPLIT; the silence after that block
\* is not part of it.
C10_SegmentCutAtMinSilence ==
  /\ Len(finalized) <= 1
  /\ stopper = "done" => Len(finalized) = 1
  /\ finalized # <<>> =>
       /\ ToneDelivered
       /\ finalized[1] = SplitSegment
       /\ ChunkFrames(finalized[1]) =
            (PreRollBlocks + 1 + LastLoudBlock - OnsetBlock + SplitSilenceBlocks)
              * BLOCKSIZE

\* The stream delivered in full and stopped, one segment finalized, the
\* rest of the trailing silence left in the pre-roll buffer.
C10_Witness ==
  /\ stopper = "done"
  /\ fed = NumBlocks
  /\ Len(finalized) = 1
  /\ pre_roll_chunks # <<>>

\* C10 as stated: exactly one segment, none during the tone, and its frame
\* count is the pre-roll plus the tone plus all of the trailing silence.
C10_SegmentHoldsAllTrailingSilence ==
  /\ Len(finalized) <= 1
  /\ stopper = "done" => Len(finalized) = 1
  /\ finalized # <<>> =>
       /\ ToneDelivered
       /\ ChunkFrames(finalized[1]) = PRE_ROLL_SECONDS * SAMPLE_RATE
                                        + (StreamFrames - ToneStart)
\* C11: after every audio_callback the pre-roll buffer holds at most
\* PRE_ROLL_SECONDS * SAMPLE_RATE frames, and pre_roll_frames is the sum of
\* the lengths of pre_roll_chunks.
C11_PreRollCap ==
  /\ pre_roll_frames <= PRE_ROLL_SECONDS * SAMPLE_RATE
  /\ pre_roll_frames = ChunkFrames(pre_roll_chunks)

\* Silence has arrived for longer than the cap: the buffer is full and its
\* oldest blocks have been dropped.
C11_Witness ==
  /\ loud_blocks = {}
  /\ fed > PreRollBlocks + 1
  /\ Len(pre_roll_chunks) = PreRollBlocks
  /\ pre_roll_chunks[1] = fed - PreRollBlocks + 1
\* The blocks held by a list of chunk lists.
BlocksOf(chunks) == {chunks[j] : j \in DOMAIN chunks}
FinalizedBlocks == UNION {BlocksOf(finalized[n]) : n \in DOMAIN finalized}

\* C12: when stop_recording has returned, the frames that were accumulated
\* have been flushed as a segment, those of an active segment and those held
\* only in the pre-roll buffer alike, and no segment is empty.
C12_StopFlushesAccumulated ==
  /\ \A n \in DOMAIN finalized : finalized[n] # <<>>
  /\ stopper = "done" =>
       /\ audio_data = <<>>
       /\ BlocksOf(pre_roll_chunks) \subseteq FinalizedBlocks
\* The fragments an entry keeps: each sanitized, the empty ones left out.
RECURSIVE KeptFragments(_)
KeptFragments(fragments) ==
  IF fragments = <<>> THEN <<>>
  ELSE LET safe == SanitizeUtf8Text(Head(fragments))
       IN  (IF safe = <<>> THEN <<>> ELSE <<safe>>) \o KeptFragments(Tail(fragments))

\* The terminal event of a call, from what the adapter streamed and returned.
TerminalOf(stream, fragments, returned) ==
  LET aggregate == Join(KeptFragments(fragments))
      full == IF IsText(returned) THEN SanitizeUtf8Text(Strip(returned)) ELSE <<>>
  IN  IF stream = "transcription"
      THEN IF IsText(returned) /\ Strip(returned) # <<>>
           THEN IF full # <<>> THEN <<[text |-> full, failed |-> FALSE]>> ELSE <<>>
           ELSE IF aggregate # <<>>
                THEN <<[text |-> aggregate, failed |-> FALSE]>> ELSE <<>>
      ELSE IF IsText(returned) /\ returned # <<>>
           THEN <<[text |-> full, failed |-> FALSE]>>
           ELSE <<[text |-> aggregate, failed |-> TRUE]>>

\* C13 as the code has it: the released text is the returned text, stripped
\* and then sanitized, when the adapter returned a text that is not empty
\* (for a transcription: not empty after stripping); otherwise it is the
\* concatenation in arrival order of the sanitized non-empty fragments, which
\* a translation releases as translation_failed; a transcription with neither
\* releases nothing.
C13_ReleasedText ==
  call.done => entry.terminal = TerminalOf(call.stream, call.fragments, call.returned)

\* Two fragments were streamed and sent, and the released text is the
\* returned one, not their concatenation.
C13_Witness ==
  /\ call.done
  /\ Len(entry.updates) = 2
  /\ entry.terminal # <<>>
  /\ entry.terminal[1].text = call.returned
  /\ entry.terminal[1].text # Join(entry.collected)

\* Concatenation of the fragments as received.
RECURSIVE ReceivedText(_)
ReceivedText(fragments) ==
  IF fragments = <<>> THEN <<>>
  ELSE (IF IsText(Head(fragments)) THEN Head(fragments) ELSE <<>>)
         \o ReceivedText(Tail(fragments))

\* C13 as stated: the released text equals the returned full text when that
\* is non-empty, else the concatenation of the fragments received.
C13_ReleasedEqualsReturned ==
  call.done /\ entry.terminal # <<>> =>
    entry.terminal[1].text =
      IF IsText(call.returned) /\ call.returned # <<>>
      THEN call.returned
      ELSE ReceivedText(call.fragments)
\* The fragments that are text and do not sanitize to the empty string.
WithoutMalformed(fragments) ==
  SelectSeq(fragments, LAMBDA f : SanitizeUtf8Text(f) # <<>>)

\* C19: a fragment that is no text or sanitizes to the empty string sends
\* no update and leaves the aggregate as it was, and the terminal event of
\* the entry is the one it would have had without that fragment.
C19_MalformedFragmentDropped ==
  LET delivered == SubSeq(call.fragments, 1, call.next - 1)
  IN  /\ entry.collected = KeptFragments(WithoutMalformed(delivered))
      /\ Len(entry.updates) = Len(WithoutMalformed(delivered))
      /\ call.done =>
           entry.terminal =
             TerminalOf(call.stream, WithoutMalformed(call.fragments), call.returned)

\* A call that streamed one malformed fragment and one good one has ended:
\* one update was sent and the terminal event is there.
C19_Witness ==
  /\ call.done
  /\ Len(call.fragments) = 2
  /\ Len(WithoutMalformed(call.fragments)) = 1
  /\ Len(entry.updates) = 1
  /\ entry.terminal # <<>>
\* C17: the pre-roll buffer, the segment accumulator, segment_active and
\* the frame counters are written only while audio_lock is held.
C17_SegmentationWritesUnderLock ==
  lock_free_writes \cap {"pre_roll_chunks", "pre_roll_frames", "audio_data",
                         "segment_active", "segment_frames",
                         "silence_frames_contig"} = {}
\* C14: at most one translation_worker thread is alive, and a translation
\* adapter call is executing only on that thread, whatever commands the
\* main thread has carried out.
C14_OneWorkerOneCall ==
  /\ worker_threads <= 1
  /\ worker.alive <=> worker_threads = 1
  /\ worker.pc = "call" => worker.alive

\* start_recording has restarted the worker while the old thread was still
\* inside an adapter call: the old thread is the one that is alive.
C14_Witness ==
  /\ main.pc = "idle"
  /\ worker.pc = "call"
  /\ worker.epoch < sessions
  /\ worker_threads = 1

\* C18: a start_recording whose device check fails sends one recording_error
\* and changes nothing else: not recording, no recording thread, and the
\* worker, the queue and both counters as they were.
C18_DeviceUnavailable ==
  [][recording_errors' # recording_errors =>
       /\ recording_errors' = recording_errors + 1
       /\ ~is_recording'
       /\ UNCHANGED <<is_recording, recorder, worker, worker_threads,
                      translation_worker_running, translation_queue,
                      translation_next_expected, translation_counter,
                      transcription_counter>>]_vars

\* The device check has failed while a worker was alive with a task queued.
C18_Witness ==
  /\ recording_errors > 0
  /\ ~is_recording
  /\ worker.alive
  /\ QueuedTasks # {}
\* C20: no step lowers transcription_counter or translation_counter, also
\* when several segment threads increment a counter at the same time.
C20_CountersMonotonic ==
  [][/\ transcription_counter' >= transcription_counter
     /\ translation_counter' >= translation_counter]_vars
\* C15: the first message of every entry is a pending one carrying the
\* entry's transcription order, it is sent as soon as the order is assigned
\* (so before any streaming update and before the terminal event), and every
\* later message of the entry carries that same order.
C15_PlaceholderFirst ==
  \A i \in Segments :
    /\ Issued(i) => seg[i].events # <<>>
    /\ seg[i].events # <<>> =>
         /\ seg[i].events[1].kind \in {"placeholder", "pending"}
         /\ seg[i].events[1].order = seg[i].trans_order
         /\ \A k \in DOMAIN seg[i].events :
              /\ seg[i].events[k].order = seg[i].events[1].order
              /\ seg[i].events[k].kind \in {"delta", "terminal"} => k > 1

\* An entry has sent its placeholder, a streaming update and its terminal
\* event while another entry holds the same order.
C15_Witness ==
  \E i, j \in Segments :
    /\ i # j
    /\ seg[i].trans_order = seg[j].trans_order
    /\ Len(seg[i].events) = Len(PendingEvents(0)) + 2
    /\ seg[i].events[Len(seg[i].events)].kind = "terminal"
    /\ seg[i].events[Len(seg[i].events) - 1].kind = "delta"
\* The chunk lists handed to process_segment_chunks so far, end to end.
RECURSIVE Handed(_)
Handed(lists) ==
  IF lists = <<>> THEN <<>> ELSE Head(lists) \o Handed(Tail(lists))

\* C16: every chunk put into the accumulator is handed to exactly one
\* process_segment_chunks call: the lists handed over, followed by what the
\* accumulator still holds, are the chunks appended, each once and in order,
\* and nothing is left in the accumulator once stop_recording has returned.
C16_ConsumedExactlyOnce ==
  /\ Handed(finalized) \o audio_data = appended
  /\ stopper = "done" => audio_data = <<>>

\* stop_recording arrived before the stream ended and before record_audio
\* polled the split the callback had requested: the segment went out through
\* stop_recording's flush.
C16_Witness ==
  /\ stopper = "done"
  /\ fed < NumBlocks
  /\ split_requested
  /\ Len(finalized) = 1
  /\ finalized[1] = appended
\* C21: once stop_translation_worker has lowered the flag, the worker thread
\* that is alive leaves its loop, given that its adapter calls return.
C21_WorkerShutdownTerminates ==
  (worker.alive /\ ~translation_worker_running) ~> ~worker.alive

\* The worker outlived the join of stop_translation_worker inside an adapter
\* call, and the restart has emptied the queue, stop signal included: the
\* thread is left with the flag alone to end it.
C21_Witness ==
  /\ main.pc = "idle"
  /\ worker.alive
  /\ worker.pc = "drain"
  /\ ~translation_worker_running
  /\ translation_queue = <<>>
\* Blocks that lie wholly inside the first tone, and inside the second.
FirstRunBlocks == {k \in 1..NumBlocks : HasTone(k) /\ ~HasSilence(k) /\ BlockStart(k) < ToneEnd}
SecondRunBlocks == {k \in 1..NumBlocks : HasTone(k) /\ ~HasSilence(k) /\ BlockStart(k) >= ToneEnd}

\* C22: a segment handed over after a split ends with the block that
\* completed the silence run and holds nothing of the run that follows, also
\* when speech resumes before record_audio has polled split_requested; the
\* next segment starts with the blocks buffered since that split.
C22_SegmentBoundaryUnderPollingRace ==
  resumes = "late" => \A n \in DOMAIN finalized :
    /\ ~(BlocksOf(finalized[n]) \cap FirstRunBlocks # {}
           /\ BlocksOf(finalized[n]) \cap SecondRunBlocks # {})
    /\ BlocksOf(finalized[n]) \cap SecondRunBlocks # {}
         => \E j \in DOMAIN finalized[n] :
              /\ finalized[n][j] \in loud_blocks
              /\ finalized[n][j] \notin FirstRunBlocks
              /\ \A i \in 1..(j - 1) : finalized[n][i] \notin loud_blocks
\* C23: while a segment is active the pre-roll buffer is empty and the
\* accumulator holds the blocks from the start of the buffered pre-roll on
\* in capture order, each of them once.
C23_OnsetMovesPreRollOnce ==
  segment_active =>
    /\ pre_roll_chunks = <<>>
    /\ \A i, j \in DOMAIN audio_data : i < j => audio_data[i] < audio_data[j]
SilentRunFrames == SilentRunFrom(fed)

\* C24: within a segment silence_frames_contig is the length of the silent
\* run since the last block at or above the threshold (zero after such a
\* block), and a callback ends the segment with a split request only when
\* that run has reached MIN_SILENCE_SEC_FOR_SPLIT * SAMPLE_RATE frames.
C24_SplitOnlyAfterMinSilence ==
  [][/\ segment_active' => silence_frames_contig' = SilentRunFrames'
     /\ segment_active /\ ~segment_active' =>
          /\ split_requested'
          /\ silence_frames_contig' = SilentRunFrames'
          /\ SilentRunFrames' >= MIN_SILENCE_SEC_FOR_SPLIT * SAMPLE_RATE
     /\ ~split_requested /\ split_requested' => segment_active /\ ~segment_active'
    ]_vars

\* Speech paused for less than the minimum and went on: the segment handed
\* over after the later split spans both runs and the pause between them.
C24_Witness ==
  /\ resumes = "early"
  /\ finalized # <<>>
  /\ BlocksOf(finalized[1]) \cap FirstRunBlocks # {}
  /\ BlocksOf(finalized[1]) \cap SecondRunBlocks # {}
\* The tasks the worker holds outside the queue during its drain loop.
HeldTasks == {worker.temp_queue[j] : j \in 1..Len(worker.temp_queue)}

\* C25: a task whose order is not the expected one stays queued as it was
\* and gets no adapter call and no event; the worker starts a call only for
\* a task whose order equals its expected order, an event is sent only for
\* that task, and a task leaves the queue only into the worker's hands.
C25_OutOfTurnHeld ==
  [][/\ worker.pc = "get" /\ worker'.pc = "head" =>
          /\ translation_queue' = translation_queue
          /\ tl_events' = tl_events
     /\ worker.pc # "call" /\ worker'.pc = "call" =>
          worker'.task[1] = worker'.next_expected_order
     /\ tl_events' # tl_events =>
          /\ worker.pc = "call"
          /\ tl_events' = Append(tl_events, tl_events'[Len(tl_events')])
          /\ tl_events'[Len(tl_events')].order = worker.next_expected_order
          /\ tl_events'[Len(tl_events')].rid = worker.task[2]
     /\ main.pc = "idle" /\ main'.pc = "idle" =>
          \A t \in QueuedTasks \ QueuedTasks' :
            t = worker'.task \/ t \in HeldTasks'
    ]_vars

\* The second translation task was queued before the first: the worker has
\* looked at it and left it on the queue, with nothing released yet.
C25_Witness ==
  /\ worker.alive /\ worker.pc = "head"
  /\ tl_events = <<>>
  /\ QueuedTasks # {}
  /\ \A t \in QueuedTasks : t[1] > worker.next_expected_order
  /\ \E i \in Segments : seg[i].pc = "q_put"
\* How often an item occurs in a sequence of queue items.
Count(items, x) == Cardinality({j \in DOMAIN items : items[j] = x})
ItemsOf(items) == {items[j] : j \in DOMAIN items}

\* C26: a pass of the drain loop takes from the queue exactly the task with
\* the expected order, holding aside the items it met before it, and puts
\* those back when the call has returned; it ends, leaving the queue as it
\* is, only when no task with the expected order is queued or the stop
\* signal is. No item is dropped or duplicated.
C26_DrainPreservesQueue ==
  [][/\ worker.pc = "drain" /\ worker'.pc = "call" =>
          /\ worker'.task[1] = worker.next_expected_order
          /\ \A x \in ItemsOf(translation_queue) \cup ItemsOf(translation_queue')
                        \cup HeldTasks' \cup {worker'.task} :
               Count(translation_queue, x) =
                 Count(translation_queue', x) + Count(worker'.temp_queue, x)
                   + (IF x = worker'.task THEN 1 ELSE 0)
     /\ worker.pc = "drain" /\ worker'.pc = "head" =>
          /\ translation_queue' = translation_queue
          /\ \/ StopSignal \in ItemsOf(translation_queue)
             \/ \A t \in QueuedTasks : t[1] # worker.next_expected_order
     /\ worker.pc = "call" /\ worker'.pc = "drain" =>
          /\ worker'.temp_queue = <<>>
          /\ \A x \in ItemsOf(translation_queue) \cup ItemsOf(translation_queue')
                        \cup HeldTasks :
               Count(translation_queue', x) =
                 Count(translation_queue, x) + Count(worker.temp_queue, x)
    ]_vars

\* A successor is being released from the drain loop while an item met
\* before it (a task left behind with an order already released) is held
\* aside.
C26_Witness ==
  /\ worker.pc = "call"
  /\ worker.temp_queue # <<>>
  /\ tl_events # <<>>
  /\ worker.task[1] = tl_events[Len(tl_events)].order + 1
\* The fragments kept of those the adapter has delivered so far.
KeptSoFar == KeptFragments(SubSeq(call.fragments, 1, call.next - 1))

\* C27: the n-th streaming update of an entry carries the concatenation, in
\* arrival order, of the first n non-empty sanitized fragments, and its
\* partial field is the n-th of them; so each update's text extends the one
\* before it.
C27_RunningConcatenation ==
  /\ Len(entry.updates) = Len(KeptSoFar)
  /\ \A n \in DOMAIN entry.updates :
       /\ entry.updates[n].text = Join(SubSeq(KeptSoFar, 1, n))
       /\ entry.updates[n].partial = KeptSoFar[n]
       /\ n > 1 =>
            entry.updates[n].text = entry.updates[n - 1].text \o entry.updates[n].partial

\* Two fragments were kept, the first of them only after a character that
\* UTF-8 cannot encode had been removed from it.
C27_Witness ==
  /\ Len(entry.updates) = 2
  /\ call.fragments[1] # entry.updates[1].partial
  /\ entry.updates[2].text # entry.updates[2].partial

\* C28: a call that returned no text after at least one fragment had been
\* kept ends with a final event (no error marker) carrying the aggregated
\* text, for a transcription and for a translation alike; a failed event is
\* sent only when there is neither returned text nor a kept fragment.
C28_FragmentsOnlyFinal ==
  call.done =>
    /\ (~IsText(call.returned) \/ call.returned = <<>>) /\ entry.collected # <<>> =>
         /\ entry.terminal # <<>>
         /\ ~entry.terminal[1].failed
         /\ entry.terminal[1].text = Join(entry.collected)
    /\ entry.terminal # <<>> /\ entry.terminal[1].failed =>
         /\ ~IsText(call.returned) \/ call.returned = <<>>
         /\ entry.collected = <<>>
\* An adapter call or a recording-file write (a segment thread between its
\* placeholder and the return of transcribe_audio_file, the worker inside
\* perform_translation_task) or a thread join is in progress.
SlowWorkInProgress ==
  \/ \E i \in Segments : seg[i].pc = "call"
  \/ worker.pc = "call"
  \/ main.pc \in {"join", "join_config"}
  \/ stopper = "join"

VolumeBlocks == {volume_events[n].block : n \in DOMAIN volume_events}

\* C30: two consecutive volume_level events are at least 0.1 s apart, and
\* the blocks that sent none are segmented like those that did: while the
\* first segment is open it holds every block from the voice entry on.
C30_VolumeRateLimited ==
  /\ \A n \in DOMAIN volume_events :
       n > 1 => volume_events[n].at - volume_events[n - 1].at >= VOLUME_INTERVAL_MS
  /\ segment_active /\ finalized = <<>> /\ ~split_requested =>
       LET held == BlocksOf(audio_data)
           onset == OnsetBlock
       IN  \A k \in onset..fed : k \in held

\* Blocks arrive every 23 ms: inside the open segment some blocks have sent
\* a volume_level event and more have not.
C30_Witness ==
  /\ segment_active
  /\ Len(volume_events) > 2
  /\ \E k \in OnsetBlock..fed : k \in VolumeBlocks
  /\ \E k \in OnsetBlock..fed : k \notin VolumeBlocks /\ k - 1 \notin VolumeBlocks

\* The task of the k-th translate_single request is in the queue, held back
\* by the worker, or being translated.
InFlight(k) ==
  \/ \E j \in DOMAIN translation_queue : translation_queue[j][2] = ManualId(k)
  \/ \E j \in DOMAIN worker.temp_queue : worker.temp_queue[j][2] = ManualId(k)
  \/ worker.pc = "call" /\ worker.task[2] = ManualId(k)

\* A terminal translation_update for the k-th request has been sent.
Answered(k) == \E n \in DOMAIN tl_events : tl_events[n].rid = ManualId(k)

\* No update_config and no start_recording is still to come, and none is
\* being carried out.
WorkerCommandsOver ==
  main.pc = "idle" /\ configs = MaxConfigs /\ sessions = MaxSessions

\* C31: a translate_single request that was queued is eventually answered
\* with a terminal translation_update, whatever update_config and
\* start_recording commands came before it. Stated for the requests that no
\* later command can disturb: the running flag is up, the task is in flight
\* and no command that stops the worker or clears the queue follows.
C31_ManualEventuallyAnswered ==
  \A k \in 1..MaxManual :
    (WorkerCommandsOver /\ translation_worker_running /\ InFlight(k))
      ~> Answered(k)

\* stop_translation_worker is being carried out: it has lowered the flag and
\* waits in join.
StopInProgress == main.pc \in {"join", "join_config"}

\* C32: whenever translation_worker_running is true and no
\* stop_translation_worker call is in progress, a translation worker thread
\* is alive; a stop signal left in the queue never ends a worker started
\* later.
C32_RunningImpliesLiveWorker ==
  translation_worker_running /\ ~StopInProgress => worker.alive

\* The order the consuming worker waits for: the local cursor of the live
\* worker, or, with no worker alive, the global that the next worker reads
\* when it starts.
Cursor ==
  IF worker.alive THEN worker.next_expected_order ELSE translation_next_expected

\* C33: no queued task lies behind the cursor: every task in
\* translation_queue has an order greater than or equal to the order its
\* worker expects, so the task the priority queue returns first can be
\* released.
C33_NoTaskBehindCursor ==
  \A j \in DOMAIN translation_queue :
    translation_queue[j] # StopSignal => translation_queue[j][1] >= Cursor

\* The positions of the terminal event among the messages of an entry.
TerminalsOf(events) == {k \in DOMAIN events : events[k].kind = "terminal"}

\* C34: every entry gets at most one terminal transcription event, every
\* translation task at most one terminal translation_update, and no
\* streaming update of an entry is sent after the entry's terminal event.
C34_OneTerminalPerEntry ==
  /\ \A i \in Segments :
       /\ Cardinality(TerminalsOf(seg[i].events)) <= 1
       /\ \A k \in TerminalsOf(seg[i].events) : k = Len(seg[i].events)
  /\ \A m, n \in DOMAIN tr_events : tr_events[m].rid = tr_events[n].rid => m = n
  /\ \A m, n \in DOMAIN tl_events : tl_events[m].rid = tl_events[n].rid => m = n

\* Two entries have each sent a terminal transcription event, one of them
\* after a streaming update, and the translation of each has been released.
C34_Witness ==
  \E i, j \in Segments :
    /\ i # j
    /\ \E k \in TerminalsOf(seg[i].events) : seg[i].events[k - 1].kind = "delta"
    /\ TerminalsOf(seg[j].events) # {}
    /\ \E m, n \in DOMAIN tl_events : tl_events[m].rid = i /\ tl_events[n].rid = j

\* C35: whenever is_recording is true (start_recording having returned), the
\* recording thread is alive; a recording thread that ended with an audio
\* device error leaves is_recording false.
C35_RecordingFlagMatchesThread ==
  is_recording => StreamOpen(recorder)

\* What a session works on: the accumulator, the pre-roll buffer, the
\* counters, the translation worker and its queue, the recording thread.
SessionState ==
  <<audio_data, segment_frames, silence_frames_contig, split_requested,
    segment_active, pre_roll_chunks, pre_roll_frames, segment_index,
    transcription_counter, translation_counter, translation_next_expected,
    translation_queue, translation_worker_running, worker, worker_threads,
    recorder, is_recording, sessions>>

\* C36: start_recording while is_recording is true leaves the accumulator,
\* the pre-roll buffer, the counters, the translation worker and the queue
\* unchanged and starts no second recording thread, so no session is started
\* while one is recording; stop_recording while is_recording is false changes
\* no state, sends no recording_stopped and hands over no segment.
C36_RedundantStartStopNoOp ==
  [][/\ is_recording => sessions' = sessions
     /\ handled'.start # handled.start =>
          is_recording /\ UNCHANGED SessionState
     /\ handled'.stop # handled.stop =>
          ~is_recording /\ UNCHANGED <<SessionState, pipe_vars, stopper,
                                       finalized, new_segment_requested,
                                       simple_recording_mode, voice_events,
                                       volume_vars, audio_lock>>]_vars

\* A start_recording was ignored during the one session there was, a
\* stop_recording after it, and the session handed over a segment.
C36_Witness ==
  /\ handled.start = MaxRedundant
  /\ handled.stop = MaxRedundant
  /\ sessions = 0
  /\ finalized # <<>>

\* The `active` of the last voice_activity event sent is v.
LastVoiceEvent(v) ==
  voice_events # <<>> /\ voice_events[Len(voice_events)] = v

\* C37: within a session the voice_activity events start with active true
\* and alternate; active false is sent in exactly the callback that requests
\* a split; and every active true is followed by an active false or by the
\* end of the session.
C37_VoiceActivityAlternates ==
  /\ [](/\ voice_events # <<>> => voice_events[1]
        /\ \A n \in DOMAIN voice_events :
             n > 1 => voice_events[n] # voice_events[n - 1])
  /\ [][(voice_events' # voice_events /\ LastVoiceEvent(FALSE)')
          <=> (segment_active /\ ~segment_active' /\ split_requested')]_vars
  /\ (LastVoiceEvent(TRUE) ~> (LastVoiceEvent(FALSE) \/ ~is_recording))

\* Speech has started, ended, and started again after the split.
C37_Witness ==
  /\ Len(voice_events) > 2
  /\ LastVoiceEvent(TRUE)
  /\ finalized # <<>>

\* C38: while simple_recording_mode is true audio_callback never changes
\* segment_active, never requests a split and sends no voice_activity; every
\* block received is appended to the accumulator, and the stop hands over
\* exactly one segment holding every block captured in the session, in
\* order, or none when no block arrived.
C38_SimpleModeOneSegment ==
  simple_recording_mode =>
    /\ ~segment_active
    /\ ~split_requested
    /\ recorder # "split"
    /\ voice_events = <<>>
    /\ pre_roll_chunks = <<>>
    /\ stopper # "done" => audio_data = BlockRange(1, fed) /\ finalized = <<>>
    /\ stopper = "done" =>
         /\ audio_data = <<>>
         /\ finalized = IF fed > 0 THEN <<BlockRange(1, fed)>> ELSE <<>>

\* A voice-input session was stopped after the tone and more than the
\* minimum silence had been captured, and handed over its one segment.
C38_Witness ==
  /\ simple_recording_mode
  /\ stopper = "done"
  /\ Len(finalized) = 1
  /\ loud_blocks # {}
  /\ SplitReached(SilentRunFrom(fed))

\* What update_config manages: the configuration, the credentials it
\* carries, the detection thresholds, and the translation worker.
ConfiguredState ==
  <<config, credentials_ok, thresholds, translation_worker_running, worker,
    worker_threads, translation_queue>>

\* C39: once a first update_config has been applied, an update_config
\* message without force leaves config, the two detection thresholds and the
\* translation worker as they are; the first message and every forced one
\* replace config with the configuration they carry.
C39_ConfigAppliedOnceUnlessForced ==
  [][\A new_config \in NewConfigs : \A credentials, force \in BOOLEAN :
       UpdateConfig(new_config, credentials, force) =>
         IF initial_config_applied /\ ~force
         THEN UNCHANGED ConfiguredState /\ handled'.config = handled.config + 1
         ELSE /\ config' = new_config
              /\ initial_config_applied'
              /\ UNCHANGED handled]_vars

\* The first update_config set the thresholds and started the worker, and a
\* later one, not forced, was ignored.
C39_Witness ==
  /\ handled.config > 0
  /\ initial_config_applied
  /\ thresholds = SentThresholds
  /\ translation_worker_running
====
